---- MODULE Spec2Model ----
(***************************************************************************)
(* Model of the medi-clear backend's model fallback chains                 *)
(* (backend/app/api/v1/chat.py, reports.py, symptom_checker.py) and of the *)
(* endpoints built on them (specification Spec: one behaviour is one        *)
(* inbound request), and of the JSON database file records_db.json with    *)
(* its callers (specifications SpecDb and SpecSeq), of the clean-up of a   *)
(* model's text (SpecText), of upload_medical_record (SpecUpload) and of   *)
(* the paging of get_records (SpecPage).                                   *)
(***************************************************************************)
EXTENDS Integers, Sequences, FiniteSets, TLC

VARIABLES
    OPENROUTER_API_KEY,  \* TRUE iff the environment holds a non-empty key
    endpoint,            \* the endpoint serving the request
    epc,                 \* position of the endpoint handler
    files,               \* chat: files of MEDICAL_RECORDS_PATH not yet processed
    dir_exists,          \* chat: MEDICAL_RECORDS_PATH.exists()
    medical_records,     \* chat: records collected by process_medical_records_from_storage
                         \* (their file_type; the text itself plays no part)
    db_record,           \* explain: what get_record_by_id finds for data.record_id
    db_explanation,      \* explain: the stored explanation of data.record_id (or None)
    chain,               \* the fallback function entered last (or "none")
    cpc,                 \* position inside the fallback function
    idx,                 \* position of model_name in the model list (1-based)
    attempts,            \* provider calls of this invocation, each with its payload and outcome
    last_error,          \* last_error of the running fallback function
    result,              \* what the fallback function returned or raised
    sent,                \* provider calls issued by the whole request
    response,            \* the HTTP response of the endpoint
    db_file,             \* DATABASE_FILE: readable or not, and the database it holds
    wpc,                 \* per worker: position in the call it serves
    wreq,                \* per worker: the call (kind, record id)
    wcount,              \* per worker: calls started so far
    wrecord,             \* per worker: record / record_data of the call
    wexplanation,        \* per worker: explanation_data of the call
    wdb,                 \* per worker: db, the copy load_database returned to insert_*
    wresp,               \* per worker: what the call returned or raised
    wcalled,             \* per worker: the call entered call_glm_for_analysis
    wstart,              \* per worker: what the file held when the call started
    wsaw,                \* per worker: workers whose load..save overlapped with its own
    wover,               \* per worker: of those, the ones that had saved before it saved
    served,              \* per record id: explanations returned with status 200
    latest,              \* per record id: the explanation insert_explanation saved last
    text_in,             \* clean-up: the parts of the text under clean-up
    text_once,           \* clean-up: the text cleaned once
    text_twice,          \* clean-up: the cleaned text cleaned again
    text_outcome,        \* clean-up: what parsing the text returned or raised
    tpc,                 \* clean-up: position
    upc,                 \* upload: position of upload_medical_record
    upload,              \* upload: the request (file size, content type, report_date)
    uploads,             \* upload: requests started so far
    new_record_id,       \* upload: record_id = str(uuid.uuid4()), or none yet
    records_dir,         \* upload: record ids that have a file in RECORDS_DIR
    extracted_text,      \* upload: extracted_text of the request
    upload_failure,      \* upload: the step of the request in which something failed
    upload_start,        \* upload: RECORDS_DIR and DATABASE_FILE when the request began
    upload_response,     \* upload: status of the HTTP response
    page_db,             \* paging: db["medical_records"] of the database read
    page_req,            \* paging: limit, record_type, user_id of the client
    pages,               \* paging: what get_records returned for offsets 0, limit, ...
    page_any,            \* paging: what get_records returned for some offset
    ppc,                 \* paging: position of the client
    assessment_id,       \* symptoms: assessment_id = str(uuid.uuid4()), or none yet
    prompts,             \* symptoms: the assessment id named in user_prompt of each attempt
    returned_id          \* symptoms: assessment_id of the assessment returned

\* Variables of one request (specification Spec)
requestVars == << OPENROUTER_API_KEY, endpoint, epc, files, dir_exists,
                 medical_records, db_record, db_explanation, chain, cpc, idx,
                 attempts, last_error, result, sent, response >>

\* Variables of the database file and its callers (SpecDb, SpecSeq)
storeVars == << db_file, wpc, wreq, wcount, wrecord, wexplanation, wdb, wresp,
               wcalled, wstart, wsaw, wover, served, latest >>

\* Variables of the clean-up of one text (SpecText)
textVars == << text_in, text_once, text_twice, text_outcome, tpc >>

\* Variables of one upload after the other (SpecUpload), which also writes
\* db_file
uploadVars == << upc, upload, uploads, new_record_id, records_dir,
                extracted_text, upload_failure, upload_start, upload_response >>

\* The workers of the database file
workerVars == << wpc, wreq, wcount, wrecord, wexplanation, wdb, wresp,
                wcalled, wstart, wsaw, wover, served, latest >>

\* Variables of a client reading the records page by page (SpecPage)
pageVars == << page_db, page_req, pages, page_any, ppc >>

\* Variables of the assessment identifier of analyze_symptoms (Spec)
symptomVars == << assessment_id, prompts, returned_id >>

\* What no request of Spec touches
otherVars == << storeVars, textVars, uploadVars, pageVars >>

notRequestVars == << otherVars, symptomVars >>
notStoreVars == << requestVars, symptomVars, textVars, uploadVars, pageVars >>
notTextVars == << requestVars, symptomVars, storeVars, uploadVars, pageVars >>
notUploadVars == << requestVars, symptomVars, workerVars, textVars, pageVars >>
notPageVars == << requestVars, symptomVars, storeVars, textVars, uploadVars >>

vars == << requestVars, symptomVars, storeVars, textVars, uploadVars, pageVars >>

----------------------------------------------------------------------------
(* Bounds of the model *)

\* Longest storage directory listing the chat endpoint is run on.
MaxFiles == 2

\* Calls each of the concurrent workers serves.
MaxRequests == 1

\* Calls the single caller of the sequential specification makes.
MaxCalls == 3

\* Length of the longest text given to the clean-up.
MaxText == 1001

\* Upload requests made one after the other.
MaxUploads == 2

\* Most medical records in the database that is read page by page; limit
\* and offset go one beyond it.
MaxRecords == 3

----------------------------------------------------------------------------
(* Model identifiers, as character sequences *)

glm_4_plus == <<"z","h","i","p","u","a","i","/","g","l","m","-","4","-","p","l","u","s">>
glm_4_0520 == <<"z","h","i","p","u","a","i","/","g","l","m","-","4","-","0","5","2","0">>
glm_4 == <<"z","h","i","p","u","a","i","/","g","l","m","-","4">>
gpt_4o == <<"o","p","e","n","a","i","/","g","p","t","-","4","o">>
gpt_35_turbo == <<"o","p","e","n","a","i","/","g","p","t","-","3",".","5","-","t","u","r","b","o">>
gpt_4_turbo == <<"o","p","e","n","a","i","/","g","p","t","-","4","-","t","u","r","b","o">>
claude_35_sonnet == <<"a","n","t","h","r","o","p","i","c","/","c","l","a","u","d","e","-","3",".","5","-","s","o","n","n","e","t">>

\* chat.py call_glm_model
models_to_try_chat == << glm_4_plus, glm_4_0520, glm_4, gpt_4o, gpt_35_turbo >>
\* chat.py extract_text_from_image_with_glm
vision_models == << gpt_4o, gpt_4_turbo, claude_35_sonnet >>
\* reports.py call_glm_for_analysis
models_to_try_analysis == << glm_4_plus, glm_4_0520, glm_4, gpt_35_turbo >>
\* symptom_checker.py analyze_symptoms
models_to_try_symptom == << glm_4_plus, glm_4_0520, glm_4, gpt_35_turbo >>

Chains == {"chat", "ocr", "analysis", "symptom"}

models_to_try(ch) ==
    CASE ch = "chat" -> models_to_try_chat
      [] ch = "ocr" -> vision_models
      [] ch = "analysis" -> models_to_try_analysis
      [] ch = "symptom" -> models_to_try_symptom

\* str.lower() on one character
UpperCase == <<"A","B","C","D","E","F","G","H","I","J","K","L","M",
               "N","O","P","Q","R","S","T","U","V","W","X","Y","Z">>
LowerCase == <<"a","b","c","d","e","f","g","h","i","j","k","l","m",
               "n","o","p","q","r","s","t","u","v","w","x","y","z">>
LowerChar(c) ==
    IF \E i \in 1..Len(UpperCase) : UpperCase[i] = c
    THEN LowerCase[CHOOSE i \in 1..Len(UpperCase) : UpperCase[i] = c]
    ELSE c
lower(s) == [i \in 1..Len(s) |-> LowerChar(s[i])]

\* Python's substring test, sub in s
Contains(sub, s) ==
    \E i \in 0..(Len(s) - Len(sub)) : SubSeq(s, i + 1, i + Len(sub)) = sub

\* symptom_checker.py: "gpt" in model_name.lower() or "deepseek" in model_name.lower()
SupportsJsonObject(model_name) ==
    \/ Contains(<<"g","p","t">>, lower(model_name))
    \/ Contains(<<"d","e","e","p","s","e","e","k">>, lower(model_name))

----------------------------------------------------------------------------
(* Completion text, as a sequence of symbols, and its clean-up *)

\* "bq": a backquote; "ws": a white-space character; "j", "s", "o", "n", "J",
\* "S", "O", "N": these letters; "x": any other character; "{ok}": a JSON
\* object with every field of the caller's schema; "{part}": a JSON object
\* lacking fields; "{bad}": a JSON object with a field of another type than
\* the schema's.
JsonValues == {"{ok}", "{part}", "{bad}"}

\* The code-fence delimiter and the tag the clean-up knows
Fence == <<"bq", "bq", "bq">>
TagJson == <<"j", "s", "o", "n">>

Contents ==
    { <<"{ok}">>,
      <<"{part}">>,
      <<"{bad}">>,
      Fence \o TagJson \o <<"ws", "{ok}", "ws">> \o Fence,
      <<"x", "ws", "{ok}">> }

RECURSIVE lstrip(_)
lstrip(s) == IF s # <<>> /\ Head(s) = "ws" THEN lstrip(Tail(s)) ELSE s
RECURSIVE rstrip(_)
rstrip(s) ==
    IF s # <<>> /\ s[Len(s)] = "ws" THEN rstrip(SubSeq(s, 1, Len(s) - 1)) ELSE s
strip(s) == rstrip(lstrip(s))

startswith(s, p) == Len(s) >= Len(p) /\ SubSeq(s, 1, Len(p)) = p
endswith(s, p) == Len(s) >= Len(p) /\ SubSeq(s, Len(s) - Len(p) + 1, Len(s)) = p

\* Clean-up that strips the white space of a text without fence too.
CleanMarkdownAlwaysStrip(raw) ==
    IF startswith(strip(raw), Fence)
    THEN LET s0 == strip(raw)
             s1 == IF startswith(s0, Fence \o TagJson) THEN SubSeq(s0, 8, Len(s0))
                   ELSE SubSeq(s0, 4, Len(s0))
             s2 == IF endswith(s1, Fence) THEN SubSeq(s1, 1, Len(s1) - 3) ELSE s1
         IN strip(s2)
    ELSE strip(raw)

\* reports.py 178-186, symptom_checker.py 179-188: raw[7:] after the fence
\* with the tag json, raw[3:] after a fence, raw[:-3] before a closing fence
CleanMarkdown(raw) ==
    IF startswith(strip(raw), Fence)
    THEN LET s0 == strip(raw)
             s1 == IF startswith(s0, Fence \o TagJson) THEN SubSeq(s0, 8, Len(s0))
                   ELSE SubSeq(s0, 4, Len(s0))
             s2 == IF endswith(s1, Fence) THEN SubSeq(s1, 1, Len(s1) - 3) ELSE s1
         IN strip(s2)
    ELSE raw

\* raw_json_text[:1000]
SnippetLimit == 1000
Snippet(text) ==
    SubSeq(text, 1, IF Len(text) < SnippetLimit THEN Len(text) ELSE SnippetLimit)

\* Texts given to the clean-up, by their parts: white space, an opening
\* fence (or one backquote, or four), a tag, white space, the payload, white
\* space, a closing fence, white space
LongText == [i \in 1..MaxText |-> "x"]
Leads == {<<>>, <<"ws">>}
Opens == {<<>>, <<"bq">>, Fence, Fence \o <<"bq">>}
Tags == {<<>>, TagJson, <<"J", "S", "O", "N">>, <<"j", "s">>, TagJson \o <<"x">>}
Payloads == {<<"{ok}">>, <<"{part}">>, <<"x">>, <<"x", "ws", "{ok}">>, LongText}
Closes == {<<>>, Fence}

TextParts == [lead : Leads, open : Opens, tag : Tags, sep : Leads,
              payload : Payloads, sep2 : Leads, close : Closes, trail : Leads]
NoText == [lead |-> <<>>, open |-> <<>>, tag |-> <<>>, sep |-> <<>>,
           payload |-> <<>>, sep2 |-> <<>>, close |-> <<>>, trail |-> <<>>]

\* The text made of the parts
Raw(t) == t.lead \o t.open \o t.tag \o t.sep \o t.payload \o t.sep2 \o t.close \o t.trail

\* json.loads succeeds: one JSON value, white space around it allowed
json_loads_ok(text) == Len(strip(text)) = 1 /\ strip(text)[1] \in JsonValues

----------------------------------------------------------------------------
(* Outcomes of one provider call *)

\* bad_status: raise_for_status raises HTTPStatusError; timeout: client.post
\* raises; body_not_json: response.json() raises; no_choices: the body is JSON
\* without choices[0].message.content; ok: the body carries that content.
FailureKinds == {"bad_status", "timeout", "body_not_json", "no_choices"}

Outcomes ==
    [kind : FailureKinds, content : {<<>>}] \cup [kind : {"ok"}, content : Contents]

Pending == [kind |-> "pending", content |-> <<>>]

----------------------------------------------------------------------------
(* Values of the fallback functions *)

NoError == [model |-> 0, kind |-> "none"]

\* The identifier uuid4 generates for the request, another identifier a
\* model may write, and none
Uuid4 == "uuid4"
OtherId == "string"
NoAssessmentId == "none"
NoResult == [kind |-> "none", model |-> 0, content |-> <<>>, status |-> 0,
             detail |-> "", error |-> NoError]
NoResponse == [status |-> 0, detail |-> "", error |-> NoError, model |-> 0,
               content |-> <<>>]

\* return <content>, taken from the attempt on the model at position m
Return(m, c) == [kind |-> "return", model |-> m, content |-> c, status |-> 0,
                 detail |-> "", error |-> NoError]
\* result = response.json() of analyze_symptoms: the body of the attempt on
\* the model at position m, with or without choices[0].message.content
Body(m, o) == [kind |-> "body", model |-> m, content |-> o.content, status |-> 0,
               detail |-> o.kind, error |-> NoError]
\* raise HTTPException(status_code, detail), the detail quoting error e
Raise(st, d, e) == [kind |-> "raise", model |-> 0, content |-> <<>>, status |-> st,
                    detail |-> d, error |-> e]

\* The response FastAPI builds from a raised HTTPException
ErrorResponse(r) == [status |-> r.status, detail |-> r.detail, error |-> r.error,
                     model |-> 0, content |-> <<>>]
OkResponse(m, c) == [status |-> 200, detail |-> "", error |-> NoError, model |-> m,
                     content |-> c]

\* status_code of the "not configured" HTTPException of each function
NotConfiguredStatus(ch) == IF ch = "symptom" THEN 502 ELSE 500

\* Payload without the capability test on the identifier.
PayloadNoCapabilityTest(ch, model_name) ==
    [model |-> model_name, response_format |-> (ch = "symptom")]

\* The payload of the request for model_name, as far as the model list and the
\* structured-output directive go.
Payload(ch, model_name) ==
    [model |-> model_name,
     response_format |-> (ch = "symptom" /\ SupportsJsonObject(model_name))]

----------------------------------------------------------------------------
(* The fallback functions *)

chainVars == << chain, cpc, idx, attempts, last_error, result >>

\* Entry of call_glm_model, extract_text_from_image_with_glm,
\* call_glm_for_analysis and analyze_symptoms: the key check, then the
\* variables of the loop.
BeginChain(ch) ==
    /\ chain' = ch
    /\ idx' = 1
    /\ attempts' = <<>>
    /\ last_error' = NoError
    /\ IF ~OPENROUTER_API_KEY
       THEN /\ cpc' = "returned"
            /\ result' = Raise(NotConfiguredStatus(ch), "not_configured", NoError)
       ELSE /\ cpc' = "loop"
            /\ result' = NoResult

\* Post iterating the list from its end.
PostReversed ==
    /\ cpc = "loop"
    /\ idx <= Len(models_to_try(chain))
    /\ attempts' = Append(attempts,
                          [payload |-> Payload(chain,
                               models_to_try(chain)[Len(models_to_try(chain)) + 1 - idx]),
                           position |-> idx,
                           outcome |-> Pending])
    /\ cpc' = "wait"
    /\ sent' = sent + 1
    /\ UNCHANGED << OPENROUTER_API_KEY, endpoint, epc, files, dir_exists,
                    medical_records, db_record, db_explanation, chain, idx,
                    last_error, result, response >>
    /\ UNCHANGED notRequestVars

\* Post that does not await the response: the next model is posted at once.
PostNoAwait ==
    /\ cpc = "loop"
    /\ idx <= Len(models_to_try(chain))
    /\ attempts' = Append(attempts,
                          [payload |-> Payload(chain, models_to_try(chain)[idx]),
                           position |-> idx,
                           outcome |-> Pending])
    /\ idx' = idx + 1
    /\ sent' = sent + 1
    /\ UNCHANGED << OPENROUTER_API_KEY, endpoint, epc, files, dir_exists,
                    medical_records, db_record, db_explanation, chain, cpc,
                    last_error, result, response >>
    /\ prompts' = IF chain = "symptom" THEN Append(prompts, assessment_id) ELSE prompts
    /\ UNCHANGED << assessment_id, returned_id >>
    /\ UNCHANGED otherVars

\* One iteration up to the await: build the payload of models_to_try[idx] and
\* post it.
Post ==
    /\ cpc = "loop"
    /\ idx <= Len(models_to_try(chain))
    /\ attempts' = Append(attempts,
                          [payload |-> Payload(chain, models_to_try(chain)[idx]),
                           position |-> idx,
                           outcome |-> Pending])
    /\ cpc' = "wait"
    /\ sent' = sent + 1
    /\ UNCHANGED << OPENROUTER_API_KEY, endpoint, epc, files, dir_exists,
                    medical_records, db_record, db_explanation, chain, idx,
                    last_error, result, response >>
    /\ prompts' = IF chain = "symptom" THEN Append(prompts, assessment_id) ELSE prompts
    /\ UNCHANGED << assessment_id, returned_id >>
    /\ UNCHANGED otherVars

Answered(o) == [attempts EXCEPT ![Len(attempts)].outcome = o]

\* Continue that stays on the same model.
ContinueRetry(o) ==
    /\ last_error' = [model |-> idx, kind |-> o.kind]
    /\ idx' = idx
    /\ cpc' = "loop"
    /\ UNCHANGED result

\* except ...: last_error = e; continue
Continue(o) ==
    /\ last_error' = [model |-> idx, kind |-> o.kind]
    /\ idx' = idx + 1
    /\ cpc' = "loop"
    /\ UNCHANGED result

\* RespondChat that keeps the content and goes on with the loop.
RespondChatNoReturn ==
    /\ chain = "chat" /\ cpc = "wait"
    /\ \E o \in Outcomes :
        /\ attempts' = Answered(o)
        /\ IF o.kind = "ok"
           THEN /\ result' = Return(idx, o.content)
                /\ idx' = idx + 1
                /\ cpc' = "loop"
                /\ UNCHANGED last_error
           ELSE Continue(o)
    /\ UNCHANGED << OPENROUTER_API_KEY, endpoint, epc, files, dir_exists,
                    medical_records, db_record, db_explanation, chain, sent,
                    response >>
    /\ UNCHANGED notRequestVars

\* call_glm_model: the rest of the iteration
RespondChat ==
    /\ chain = "chat" /\ cpc = "wait"
    /\ \E o \in Outcomes :
        /\ attempts' = Answered(o)
        /\ IF o.kind = "ok"
           THEN /\ result' = Return(idx, o.content)
                /\ cpc' = "returned"
                /\ UNCHANGED << idx, last_error >>
           ELSE Continue(o)
    /\ UNCHANGED << OPENROUTER_API_KEY, endpoint, epc, files, dir_exists,
                    medical_records, db_record, db_explanation, chain, sent,
                    response >>
    /\ UNCHANGED notRequestVars

\* extract_text_from_image_with_glm: the rest of the iteration; the except
\* clause keeps no error
RespondOcr ==
    /\ chain = "ocr" /\ cpc = "wait"
    /\ \E o \in Outcomes :
        /\ attempts' = Answered(o)
        /\ IF o.kind = "ok"
           THEN /\ result' = Return(idx, o.content)
                /\ cpc' = "returned"
                /\ UNCHANGED idx
           ELSE /\ idx' = idx + 1
                /\ cpc' = "loop"
                /\ UNCHANGED result
    /\ UNCHANGED << OPENROUTER_API_KEY, endpoint, epc, files, dir_exists,
                    medical_records, db_record, db_explanation, chain, sent,
                    last_error, response >>
    /\ UNCHANGED notRequestVars

\* call_glm_for_analysis: the rest of the iteration; json.loads of the cleaned
\* content runs inside the try
RespondAnalysis ==
    /\ chain = "analysis" /\ cpc = "wait"
    /\ \E o \in Outcomes :
        /\ attempts' = Answered(o)
        /\ IF o.kind = "ok"
           THEN IF json_loads_ok(CleanMarkdown(o.content))
                THEN /\ result' = Return(idx, strip(CleanMarkdown(o.content)))
                     /\ cpc' = "returned"
                     /\ UNCHANGED << idx, last_error >>
                ELSE Continue([kind |-> "invalid_json"])
           ELSE Continue(o)
    /\ UNCHANGED << OPENROUTER_API_KEY, endpoint, epc, files, dir_exists,
                    medical_records, db_record, db_explanation, chain, sent,
                    response >>
    /\ UNCHANGED notRequestVars

\* analyze_symptoms: the rest of the iteration; any JSON body breaks the loop
RespondSymptom ==
    /\ chain = "symptom" /\ cpc = "wait"
    /\ \E o \in Outcomes :
        /\ attempts' = Answered(o)
        /\ IF o.kind \in {"ok", "no_choices"}
           THEN /\ result' = Body(idx, o)
                /\ cpc' = "post"
                /\ UNCHANGED << idx, last_error >>
           ELSE Continue(o)
    /\ UNCHANGED << OPENROUTER_API_KEY, endpoint, epc, files, dir_exists,
                    medical_records, db_record, db_explanation, chain, sent,
                    response >>
    /\ UNCHANGED notRequestVars

\* The function falls off its end and returns nothing instead of raising.
AllFailedFallsThrough(ch) == Return(0, <<>>)

\* The raise that follows the loop of each function
AllFailed(ch) ==
    CASE ch = "chat" -> Raise(500, "all_models_failed", last_error)
      [] ch = "ocr" -> Raise(500, "ocr_failed", NoError)
      [] ch = "analysis" -> Raise(500, "all_models_failed", last_error)
      [] ch = "symptom" -> Raise(500, "all_models_failed", last_error)

\* The list is exhausted: the function raises
Exhausted ==
    /\ cpc = "loop"
    /\ idx > Len(models_to_try(chain))
    /\ result' = AllFailed(chain)
    /\ cpc' = "returned"
    /\ UNCHANGED << OPENROUTER_API_KEY, endpoint, epc, files, dir_exists,
                    medical_records, db_record, db_explanation, chain, idx,
                    attempts, last_error, sent, response >>
    /\ UNCHANGED notRequestVars

----------------------------------------------------------------------------
(* POST /symptoms/analyze: analyze_symptoms *)

\* Steps 1-4 up to the first post: the key check, assessment_id, the prompt
\* that names it, and the variables of the loop
StartSymptoms ==
    /\ endpoint = "symptoms" /\ epc = "start"
    /\ BeginChain("symptom")
    /\ IF ~OPENROUTER_API_KEY
       THEN /\ epc' = "done"
            /\ response' = ErrorResponse(Raise(NotConfiguredStatus("symptom"),
                                               "not_configured", NoError))
            /\ UNCHANGED assessment_id
       ELSE /\ epc' = "calling"
            /\ assessment_id' = Uuid4
            /\ UNCHANGED response
    /\ UNCHANGED << OPENROUTER_API_KEY, endpoint, files, dir_exists,
                    medical_records, db_record, db_explanation, sent >>
    /\ UNCHANGED << prompts, returned_id >>
    /\ UNCHANGED otherVars

\* The for loop's else clause: the HTTPException leaves the handler
SymptomsAllFailed ==
    /\ endpoint = "symptoms" /\ epc = "calling"
    /\ chain = "symptom" /\ cpc = "returned"
    /\ response' = ErrorResponse(result)
    /\ epc' = "done"
    /\ cpc' = "idle"
    /\ UNCHANGED << OPENROUTER_API_KEY, endpoint, files, dir_exists,
                    medical_records, db_record, db_explanation, chain, idx,
                    attempts, last_error, result, sent >>
    /\ UNCHANGED notRequestVars

\* Validation that fills a default in for a missing field.
AssessmentValidLenient(text) == strip(text) \in {<<"{ok}">>, <<"{part}">>}

\* SymptomAssessment(**assessment_data) validates: every field is required
AssessmentValid(text) == strip(text) = <<"{ok}">>

\* Steps 5-7 on result = res: extract, clean, parse, validate.  keyword: the
\* text of the caught exception holds "quota", "api key", "authentication" or
\* "rate limit"; shown: str() of the HTTPException of step 5 shows its detail
\* (it does where starlette gives HTTPException a __str__).
ExtractAssessment(res, keyword, shown) ==
    LET raw_json_text == CleanMarkdown(res.content)
        unexpected(e, echo) ==
            [Raise(IF keyword THEN 502 ELSE 500,
                   IF keyword THEN "api_error" ELSE "unexpected_error",
                   e) EXCEPT !.content = echo]
    IN  IF res.detail = "no_choices"
        THEN unexpected([model |-> res.model, kind |-> "no_choices"],
                        IF shown THEN res.content ELSE <<>>)
        ELSE IF ~json_loads_ok(raw_json_text)
        THEN [Raise(500, "malformed_json", NoError)
                  EXCEPT !.content = Snippet(raw_json_text)]
        ELSE IF ~AssessmentValid(raw_json_text) THEN unexpected(NoError, <<>>)
        ELSE Return(res.model, strip(raw_json_text))

\* Steps 5-7, after the break.  written: the assessment_id the model wrote
\* in its JSON object; the assessment returned is built from that object
SymptomsExtract ==
    /\ endpoint = "symptoms" /\ epc = "calling"
    /\ chain = "symptom" /\ cpc = "post"
    /\ \E keyword, shown \in BOOLEAN, written \in {assessment_id, OtherId} :
        LET outcome == ExtractAssessment(result, keyword, shown)
        IN  /\ (result.detail = "no_choices" /\ keyword) => shown
            /\ result' = outcome
            /\ response' = IF outcome.kind = "raise"
                           THEN [ErrorResponse(outcome) EXCEPT !.content = outcome.content]
                           ELSE OkResponse(outcome.model, outcome.content)
            /\ returned_id' = IF outcome.kind = "raise" THEN returned_id ELSE written
    /\ epc' = "done"
    /\ cpc' = "idle"
    /\ UNCHANGED << OPENROUTER_API_KEY, endpoint, files, dir_exists,
                    medical_records, db_record, db_explanation, chain, idx,
                    attempts, last_error, sent >>
    /\ UNCHANGED << assessment_id, prompts >>
    /\ UNCHANGED otherVars

----------------------------------------------------------------------------
(* POST /records/explain: explain_medical_report *)

\* ReportExplanation(**explanation_data) validates: the fields read from the
\* analysis (or their defaults) have the declared types
ReportExplanationValid(content) == content \in {"{ok}", "{part}"}

\* The response to a ValidationError that leaves the handler
ValidationFailed == [NoResponse EXCEPT !.status = 500, !.detail = "validation_error"]

\* Steps 1-4 up to the first post: fetch the record, return a stored
\* explanation, refuse a record without text, enter call_glm_for_analysis
StartExplain ==
    /\ endpoint = "explain" /\ epc = "start"
    /\ IF db_record = "absent"
       THEN /\ response' = [NoResponse EXCEPT !.status = 404, !.detail = "record_not_found"]
            /\ epc' = "done"
            /\ UNCHANGED chainVars
       ELSE IF db_explanation # NoResult
       THEN /\ response' = IF ReportExplanationValid(db_explanation.content[1])
                           THEN OkResponse(db_explanation.model, db_explanation.content)
                           ELSE ValidationFailed
            /\ epc' = "done"
            /\ UNCHANGED chainVars
       ELSE IF db_record = "no_text"
       THEN /\ response' = [NoResponse EXCEPT !.status = 400, !.detail = "no_text"]
            /\ epc' = "done"
            /\ UNCHANGED chainVars
       ELSE /\ BeginChain("analysis")
            /\ epc' = "calling"
            /\ UNCHANGED response
    /\ UNCHANGED << OPENROUTER_API_KEY, endpoint, files, dir_exists,
                    medical_records, db_record, db_explanation, sent >>
    /\ UNCHANGED notRequestVars

\* Steps 4-6, after call_glm_for_analysis: re-raise its HTTPException, or
\* build the explanation (defaults for missing keys), store it, validate it
\* and return it
FinishExplain ==
    /\ endpoint = "explain" /\ epc = "calling"
    /\ chain = "analysis" /\ cpc = "returned"
    /\ IF result.kind = "raise"
       THEN /\ response' = ErrorResponse(result)
            /\ UNCHANGED db_explanation
       ELSE /\ db_explanation' = result
            /\ response' = IF ReportExplanationValid(result.content[1])
                           THEN OkResponse(result.model, result.content)
                           ELSE ValidationFailed
    /\ epc' = "done"
    /\ cpc' = "idle"
    /\ UNCHANGED << OPENROUTER_API_KEY, endpoint, files, dir_exists,
                    medical_records, db_record, chain, idx, attempts,
                    last_error, result, sent >>
    /\ UNCHANGED notRequestVars

----------------------------------------------------------------------------
(* POST /chat/ask: chat_ask_question *)

\* image: a .jpg/.png/... file; text: a readable .txt or .json file; badtext:
\* a .json file json.load rejects; other: any other entry of the directory
FileKinds == {"image", "text", "badtext", "other"}

RECURSIVE SeqsUpTo(_, _)
SeqsUpTo(S, n) ==
    IF n = 0 THEN {<<>>}
    ELSE SeqsUpTo(S, n - 1) \cup
         {Append(q, x) : q \in {r \in SeqsUpTo(S, n - 1) : Len(r) = n - 1}, x \in S}

\* process_medical_records_from_storage up to its loop over the files
StartChat ==
    /\ endpoint = "chat" /\ epc = "start"
    /\ IF ~dir_exists
       THEN /\ response' = [NoResponse EXCEPT !.status = 404, !.detail = "no_storage_directory"]
            /\ epc' = "done"
       ELSE IF files = <<>>
       THEN /\ response' = [NoResponse EXCEPT !.status = 404, !.detail = "no_records_found"]
            /\ epc' = "done"
       ELSE /\ epc' = "files"
            /\ UNCHANGED response
    /\ UNCHANGED << OPENROUTER_API_KEY, endpoint, files, dir_exists,
                    medical_records, db_record, db_explanation, chainVars, sent >>
    /\ UNCHANGED notRequestVars

\* One iteration of the loop over the files, up to the first await
ProcessFile ==
    /\ endpoint = "chat" /\ epc = "files"
    /\ cpc = "idle"
    /\ files # <<>>
    /\ files' = Tail(files)
    /\ CASE Head(files) = "image" ->
              /\ BeginChain("ocr")
              /\ UNCHANGED medical_records
         [] Head(files) = "text" ->
              /\ medical_records' = Append(medical_records,
                                           [file_type |-> "text"])
              /\ UNCHANGED chainVars
         [] OTHER ->
              UNCHANGED << medical_records, chainVars >>
    /\ UNCHANGED << OPENROUTER_API_KEY, endpoint, epc, dir_exists, db_record,
                    db_explanation, sent, response >>
    /\ UNCHANGED notRequestVars

\* extract_text_from_image_with_glm is back: append the record, or print the
\* exception and continue with the next file
OcrReturn ==
    /\ endpoint = "chat" /\ epc = "files"
    /\ chain = "ocr" /\ cpc = "returned"
    /\ medical_records' =
          IF result.kind = "return"
          THEN Append(medical_records, [file_type |-> "image"])
          ELSE medical_records
    /\ cpc' = "idle"
    /\ UNCHANGED << OPENROUTER_API_KEY, endpoint, epc, files, dir_exists,
                    db_record, db_explanation, chain, idx, attempts,
                    last_error, result, sent, response >>
    /\ UNCHANGED notRequestVars

\* After the loop over the files: 404 when nothing was processed, else steps
\* 2-4 of chat_ask_question up to the first post of call_glm_model
FilesDone ==
    /\ endpoint = "chat" /\ epc = "files"
    /\ cpc = "idle"
    /\ files = <<>>
    /\ IF medical_records = <<>>
       THEN /\ response' = [NoResponse EXCEPT !.status = 404, !.detail = "no_records_processed"]
            /\ epc' = "done"
            /\ UNCHANGED chainVars
       ELSE /\ BeginChain("chat")
            /\ epc' = "calling"
            /\ UNCHANGED response
    /\ UNCHANGED << OPENROUTER_API_KEY, endpoint, files, dir_exists,
                    medical_records, db_record, db_explanation, sent >>
    /\ UNCHANGED notRequestVars

\* Steps 4-9: re-raise the HTTPException of call_glm_model, or answer
FinishChat ==
    /\ endpoint = "chat" /\ epc = "calling"
    /\ chain = "chat" /\ cpc = "returned"
    /\ response' = IF result.kind = "raise" THEN ErrorResponse(result)
                   ELSE OkResponse(result.model, result.content)
    /\ epc' = "done"
    /\ cpc' = "idle"
    /\ UNCHANGED << OPENROUTER_API_KEY, endpoint, files, dir_exists,
                    medical_records, db_record, db_explanation, chain, idx,
                    attempts, last_error, result, sent >>
    /\ UNCHANGED notRequestVars

----------------------------------------------------------------------------
(* The JSON database file and its helpers (reports.py, records.py) *)

Workers == {1, 2}

\* Identifiers of the records: three stored at the start (rC without
\* extracted text), one that was never stored; an uploaded record gets the
\* pair (worker, number of its call) for its uuid4.
rA == <<0, 1>>
rB == <<0, 2>>
rC == <<0, 3>>
rX == <<0, 4>>
RecordIds == {rA, rB, rC, rX}

\* A record of medical_records, as far as explain_medical_report reads it
Record(id, has_text) == [id |-> id, has_text |-> has_text]
NoRecord == [id |-> <<0, 0>>, has_text |-> FALSE]

\* explanation_data: the record it explains, the JSON value of the analysis
\* its fields were read from, and explanation_generated_at (the call that
\* built it stands for the time)
Explanation(record_id, content, at) ==
    [record_id |-> record_id, content |-> content, explanation_generated_at |-> at]
NoExplanation == [record_id |-> <<0, 0>>, content |-> "none",
                  explanation_generated_at |-> <<0, 0>>]

EmptyDb == [medical_records |-> <<>>, report_explanations |-> <<>>]

InitialRecords == << Record(rA, TRUE), Record(rB, TRUE), Record(rC, FALSE) >>
StoredAtStart == Explanation(rA, "{ok}", <<0, 0>>)

\* The file as open(DATABASE_FILE, 'r') and json.load find it
File(readable, db) == [readable |-> readable, data |-> db]

\* load_database: the content of the file, or an empty database when reading
\* or parsing raises
load_database(f) == IF f.readable THEN f.data ELSE EmptyDb

\* get_record_by_id and get_explanation_by_record_id, on the loaded database
get_record_by_id(db, record_id) ==
    LET hits == SelectSeq(db.medical_records, LAMBDA record : record.id = record_id)
    IN  IF hits = <<>> THEN NoRecord ELSE Head(hits)

get_explanation_by_record_id(db, record_id) ==
    LET hits == SelectSeq(db.report_explanations,
                          LAMBDA explanation : explanation.record_id = record_id)
    IN  IF hits = <<>> THEN NoExplanation ELSE Head(hits)

\* insert_record between load_database and save_database
insert_record(db, record_data) ==
    [db EXCEPT !.medical_records = Append(@, record_data)]

\* insert_explanation that appends without removing the stored explanation.
insert_explanation_keeping(db, explanation_data) ==
    [db EXCEPT !.report_explanations = Append(@, explanation_data)]

\* insert_explanation between load_database and save_database
insert_explanation(db, explanation_data) ==
    [db EXCEPT !.report_explanations =
        Append(SelectSeq(@, LAMBDA exp : exp.record_id # explanation_data.record_id),
               explanation_data)]

\* What a call found in the file when it began, before any call has begun
NoStart == [record |-> NoRecord, explanation |-> NoExplanation,
            medical_records |-> <<>>]

\* MAX_FILE_SIZE_MB
MAX_FILE_SIZE_MB == 10

\* Sizes of uploaded files in MB: under the limit, at the limit, over it
FileSizes == {1, MAX_FILE_SIZE_MB, MAX_FILE_SIZE_MB + 1}

\* allowed_types, and the content types clients send
allowed_types == {"application/pdf", "image/jpeg", "image/png"}
ContentTypes == allowed_types \cup {"text/plain"}

\* report_date in YYYY-MM-DD format ("iso") or not
ReportDates == {"iso", "bad"}

\* No paging request; no result of get_records
NoPageRequest == [limit |-> 0, record_type |-> "", user_id |-> ""]
NoPage == [offset |-> 0, page |-> <<>>, total |-> 0]

\* No request, no generated record id
NoUpload == [file_size_mb |-> 0, content_type |-> "none", report_date |-> "none"]
NoId == <<0, 0>>

\* What a call returned (status 200, 201) or raised
WResp(status, explanation) == [status |-> status, explanation |-> explanation]
NoWResp == WResp(0, NoExplanation)

----------------------------------------------------------------------------
(* The specification of one request *)

\* The database file and its workers play no part in one request
StoreIdle ==
    /\ db_file = File(TRUE, EmptyDb)
    /\ wpc = [p \in Workers |-> "idle"]
    /\ wreq = [p \in Workers |-> [kind |-> "none", record_id |-> <<0, 0>>]]
    /\ wcount = [p \in Workers |-> 0]
    /\ wrecord = [p \in Workers |-> NoRecord]
    /\ wexplanation = [p \in Workers |-> NoExplanation]
    /\ wdb = [p \in Workers |-> EmptyDb]
    /\ wresp = [p \in Workers |-> NoWResp]
    /\ wcalled = [p \in Workers |-> FALSE]
    /\ wstart = [p \in Workers |-> NoStart]
    /\ wsaw = [p \in Workers |-> {}]
    /\ wover = [p \in Workers |-> {}]
    /\ served = [r \in RecordIds |-> {}]
    /\ latest = [r \in RecordIds |-> NoExplanation]

\* No text is under clean-up
TextIdle ==
    /\ text_in = NoText
    /\ text_once = <<>>
    /\ text_twice = <<>>
    /\ text_outcome = NoResult
    /\ tpc = "idle"

\* No upload is running
UploadIdle ==
    /\ upc = "idle"
    /\ upload = NoUpload
    /\ uploads = 0
    /\ new_record_id = NoId
    /\ records_dir = {}
    /\ extracted_text = <<>>
    /\ upload_failure = "none"
    /\ upload_start = [records_dir |-> {}, db_file |-> File(TRUE, EmptyDb)]
    /\ upload_response = 0

\* No assessment identifier was generated
SymptomIdle ==
    /\ assessment_id = NoAssessmentId
    /\ prompts = <<>>
    /\ returned_id = NoAssessmentId

\* No client is reading pages
PageIdle ==
    /\ page_db = <<>>
    /\ page_req = NoPageRequest
    /\ pages = <<>>
    /\ page_any = NoPage
    /\ ppc = "idle"

\* What the three requests share at their start
InitCommon ==
    /\ OPENROUTER_API_KEY \in BOOLEAN
    /\ epc = "start"
    /\ medical_records = <<>>
    /\ chain = "none"
    /\ cpc = "idle"
    /\ idx = 1
    /\ attempts = <<>>
    /\ last_error = NoError
    /\ result = NoResult
    /\ sent = 0
    /\ response = NoResponse
    /\ StoreIdle
    /\ TextIdle
    /\ UploadIdle
    /\ PageIdle
    /\ SymptomIdle

Init ==
    \/ /\ endpoint = "symptoms"
       /\ files = <<>> /\ dir_exists = TRUE
       /\ db_record = "absent" /\ db_explanation = NoResult
       /\ InitCommon
    \/ /\ endpoint = "explain"
       /\ files = <<>> /\ dir_exists = TRUE
       /\ db_record \in {"absent", "no_text", "text"}
       /\ db_explanation \in {NoResult, Return(1, <<"{ok}">>), Return(1, <<"{bad}">>)}
       /\ InitCommon
    \/ /\ endpoint = "chat"
       /\ files \in SeqsUpTo(FileKinds, MaxFiles) /\ dir_exists \in BOOLEAN
       /\ db_record = "absent" /\ db_explanation = NoResult
       /\ InitCommon

Next ==
    \/ Post
    \/ RespondChat
    \/ RespondOcr
    \/ RespondAnalysis
    \/ RespondSymptom
    \/ Exhausted
    \/ StartSymptoms
    \/ SymptomsAllFailed
    \/ SymptomsExtract
    \/ StartExplain
    \/ FinishExplain
    \/ StartChat
    \/ ProcessFile
    \/ OcrReturn
    \/ FilesDone
    \/ FinishChat

Spec == Init /\ [][Next]_vars

----------------------------------------------------------------------------
(* Calls on the database: insert_record (from upload_medical_record),       *)
(* insert_explanation, explain_medical_report.  Every access to the file is *)
(* one step, so that workers interleave as processes or threads do.         *)

EndpointCalls == {"insert_record", "explain"}
FunctionCalls == {"insert_record", "insert_explanation", "explain"}

\* The calls worker p may start: an upload reaching insert_record with a
\* fresh record, insert_explanation with a complete explanation of a stored
\* record with text, an explain request for one of the record ids asked
Calls(p, kinds, asked) ==
    { c \in [kind : kinds, record_id : asked \cup {<<p, wcount[p] + 1>>}] :
        /\ c.kind = "insert_record" <=> c.record_id = <<p, wcount[p] + 1>>
        /\ c.kind = "insert_explanation" => c.record_id \in {rA, rB} }

StartCall(p, kinds, asked, max) ==
    /\ wpc[p] \in {"idle", "done"}
    /\ wcount[p] < max
    /\ \E c \in Calls(p, kinds, asked) :
        /\ wreq' = [wreq EXCEPT ![p] = c]
        /\ wpc' = [wpc EXCEPT ![p] = IF c.kind = "explain" THEN "get_record" ELSE "insert"]
        /\ wrecord' = [wrecord EXCEPT ![p] =
                          IF c.kind = "insert_record" THEN Record(c.record_id, TRUE)
                          ELSE NoRecord]
        /\ wexplanation' = [wexplanation EXCEPT ![p] =
                               IF c.kind = "insert_explanation"
                               THEN Explanation(c.record_id, "{ok}", <<p, wcount[p] + 1>>)
                               ELSE NoExplanation]
        /\ wstart' = [wstart EXCEPT ![p] =
                         [record |-> get_record_by_id(load_database(db_file),
                                                      c.record_id),
                          explanation |-> get_explanation_by_record_id(
                                              load_database(db_file), c.record_id),
                          medical_records |->
                              load_database(db_file).medical_records]]
    /\ wcount' = [wcount EXCEPT ![p] = @ + 1]
    /\ wdb' = [wdb EXCEPT ![p] = EmptyDb]
    /\ wresp' = [wresp EXCEPT ![p] = NoWResp]
    /\ wcalled' = [wcalled EXCEPT ![p] = FALSE]
    /\ wsaw' = [q \in Workers |-> IF q = p THEN {} ELSE wsaw[q] \ {p}]
    /\ wover' = [q \in Workers |-> IF q = p THEN {} ELSE wover[q] \ {p}]
    /\ UNCHANGED << db_file, served, latest >>
    /\ UNCHANGED notStoreVars

\* explain_medical_report step 1: fetch the record
ExplainGetRecord(p) ==
    /\ wpc[p] = "get_record"
    /\ LET record == get_record_by_id(load_database(db_file), wreq[p].record_id)
       IN  IF record = NoRecord
           THEN /\ wresp' = [wresp EXCEPT ![p] = WResp(404, NoExplanation)]
                /\ wpc' = [wpc EXCEPT ![p] = "done"]
                /\ UNCHANGED wrecord
           ELSE /\ wrecord' = [wrecord EXCEPT ![p] = record]
                /\ wpc' = [wpc EXCEPT ![p] = "get_explanation"]
                /\ UNCHANGED wresp
    /\ UNCHANGED << db_file, wreq, wcount, wexplanation, wdb, wcalled, wstart,
                    wsaw, wover, served, latest >>
    /\ UNCHANGED notStoreVars

\* Steps 2-3: return the stored explanation (ReportExplanation validates it),
\* refuse a record without text
ExplainGetExplanation(p) ==
    /\ wpc[p] = "get_explanation"
    /\ LET existing_explanation ==
               get_explanation_by_record_id(load_database(db_file), wreq[p].record_id)
       IN  IF existing_explanation # NoExplanation
           THEN /\ wpc' = [wpc EXCEPT ![p] = "done"]
                /\ IF ReportExplanationValid(existing_explanation.content)
                   THEN /\ wresp' = [wresp EXCEPT ![p] = WResp(200, existing_explanation)]
                        /\ served' = [served EXCEPT ![wreq[p].record_id] =
                                         @ \cup {existing_explanation}]
                   ELSE /\ wresp' = [wresp EXCEPT ![p] = WResp(500, NoExplanation)]
                        /\ UNCHANGED served
           ELSE IF ~wrecord[p].has_text
           THEN /\ wpc' = [wpc EXCEPT ![p] = "done"]
                /\ wresp' = [wresp EXCEPT ![p] = WResp(400, NoExplanation)]
                /\ UNCHANGED served
           ELSE /\ wpc' = [wpc EXCEPT ![p] = "calling"]
                /\ UNCHANGED << wresp, served >>
    /\ UNCHANGED << db_file, wreq, wcount, wrecord, wexplanation, wdb, wcalled,
                    wstart, wsaw, wover, latest >>
    /\ UNCHANGED notStoreVars

\* Steps 4-5 up to insert_explanation: call_glm_for_analysis raises, or
\* returns a JSON value from which explanation_data is built
ExplainAnalysis(p) ==
    /\ wpc[p] = "calling"
    /\ wcalled' = [wcalled EXCEPT ![p] = TRUE]
    /\ \E analysis \in {"raise"} \cup JsonValues :
        IF analysis = "raise"
        THEN /\ wresp' = [wresp EXCEPT ![p] = WResp(500, NoExplanation)]
             /\ wpc' = [wpc EXCEPT ![p] = "done"]
             /\ UNCHANGED wexplanation
        ELSE /\ wexplanation' = [wexplanation EXCEPT ![p] =
                                    Explanation(wreq[p].record_id, analysis,
                                                <<p, wcount[p]>>)]
             /\ wpc' = [wpc EXCEPT ![p] = "insert"]
             /\ UNCHANGED wresp
    /\ UNCHANGED << db_file, wreq, wcount, wrecord, wdb, wstart, wsaw, wover,
                    served, latest >>
    /\ UNCHANGED notStoreVars

\* insert_record / insert_explanation: db = load_database() and the change
\* made to db in memory
InsertLoad(p) ==
    /\ wpc[p] = "insert"
    /\ wdb' = [wdb EXCEPT ![p] =
                  IF wreq[p].kind = "insert_record"
                  THEN insert_record(load_database(db_file), wrecord[p])
                  ELSE insert_explanation(load_database(db_file), wexplanation[p])]
    /\ wsaw' = [q \in Workers |->
                  IF q = p THEN {r \in Workers \ {p} : wpc[r] \in {"open", "dump"}}
                  ELSE IF wpc[q] \in {"open", "dump"} THEN wsaw[q] \cup {p}
                  ELSE wsaw[q]]
    /\ wpc' = [wpc EXCEPT ![p] = "open"]
    /\ UNCHANGED << db_file, wreq, wcount, wrecord, wexplanation, wresp, wcalled,
                    wstart, wover, served, latest >>
    /\ UNCHANGED notStoreVars

\* save_database that reads the file again and redoes the change on what it
\* finds, in one step with the truncation.
SaveOpenReloading(p) ==
    /\ wpc[p] = "open"
    /\ wdb' = [wdb EXCEPT ![p] =
                  IF wreq[p].kind = "insert_record"
                  THEN insert_record(load_database(db_file), wrecord[p])
                  ELSE insert_explanation(load_database(db_file), wexplanation[p])]
    /\ db_file' = File(FALSE, EmptyDb)
    /\ wpc' = [wpc EXCEPT ![p] = "dump"]
    /\ UNCHANGED << wreq, wcount, wrecord, wexplanation, wresp, wcalled,
                    wstart, wsaw, wover, served, latest >>
    /\ UNCHANGED notStoreVars

\* save_database: open(DATABASE_FILE, 'w') truncates the file
SaveOpen(p) ==
    /\ wpc[p] = "open"
    /\ db_file' = File(FALSE, EmptyDb)
    /\ wpc' = [wpc EXCEPT ![p] = "dump"]
    /\ UNCHANGED << wreq, wcount, wrecord, wexplanation, wdb, wresp, wcalled,
                    wstart, wsaw, wover, served, latest >>
    /\ UNCHANGED notStoreVars

\* save_database: json.dump writes db and the file is closed; then the rest
\* of the caller (explain_medical_report step 6 validates and returns)
SaveDump(p) ==
    /\ wpc[p] = "dump"
    /\ db_file' = File(TRUE, wdb[p])
    /\ wover' = [wover EXCEPT ![p] = {q \in wsaw[p] : wpc[q] = "done"}]
    /\ wpc' = [wpc EXCEPT ![p] = "done"]
    /\ latest' = IF wreq[p].kind = "insert_record" THEN latest
                 ELSE [latest EXCEPT ![wreq[p].record_id] = wexplanation[p]]
    /\ CASE wreq[p].kind = "insert_record" ->
              /\ wresp' = [wresp EXCEPT ![p] = WResp(201, NoExplanation)]
              /\ UNCHANGED served
         [] wreq[p].kind = "insert_explanation" ->
              /\ wresp' = [wresp EXCEPT ![p] = WResp(200, wexplanation[p])]
              /\ UNCHANGED served
         [] wreq[p].kind = "explain" ->
              IF ReportExplanationValid(wexplanation[p].content)
              THEN /\ wresp' = [wresp EXCEPT ![p] = WResp(200, wexplanation[p])]
                   /\ served' = [served EXCEPT ![wreq[p].record_id] =
                                    @ \cup {wexplanation[p]}]
              ELSE /\ wresp' = [wresp EXCEPT ![p] = WResp(500, NoExplanation)]
                   /\ UNCHANGED served
    /\ UNCHANGED << wreq, wcount, wrecord, wexplanation, wdb, wcalled, wstart,
                    wsaw >>
    /\ UNCHANGED notStoreVars

----------------------------------------------------------------------------
(* The specifications of the database *)

\* No request of specification Spec is running
RequestIdle ==
    /\ OPENROUTER_API_KEY = TRUE
    /\ endpoint = "none"
    /\ epc = "done"
    /\ files = <<>> /\ dir_exists = TRUE
    /\ medical_records = <<>>
    /\ db_record = "absent" /\ db_explanation = NoResult
    /\ chain = "none"
    /\ cpc = "idle"
    /\ idx = 1
    /\ attempts = <<>>
    /\ last_error = NoError
    /\ result = NoResult
    /\ sent = 0
    /\ response = NoResponse
    /\ SymptomIdle

\* The file holds the three records and at most one explanation per record;
\* no worker has started a call
InitDb ==
    /\ \E stored \in {<<>>, << StoredAtStart >>} :
        /\ db_file = File(TRUE, [medical_records |-> InitialRecords,
                                 report_explanations |-> stored])
        /\ latest = [r \in RecordIds |->
                        get_explanation_by_record_id(
                            [medical_records |-> InitialRecords,
                             report_explanations |-> stored], r)]
    /\ wpc = [p \in Workers |-> "idle"]
    /\ wreq = [p \in Workers |-> [kind |-> "none", record_id |-> <<0, 0>>]]
    /\ wcount = [p \in Workers |-> 0]
    /\ wrecord = [p \in Workers |-> NoRecord]
    /\ wexplanation = [p \in Workers |-> NoExplanation]
    /\ wdb = [p \in Workers |-> EmptyDb]
    /\ wresp = [p \in Workers |-> NoWResp]
    /\ wcalled = [p \in Workers |-> FALSE]
    /\ wstart = [p \in Workers |-> NoStart]
    /\ wsaw = [p \in Workers |-> {}]
    /\ wover = [p \in Workers |-> {}]
    /\ served = [r \in RecordIds |-> {}]
    /\ RequestIdle
    /\ TextIdle
    /\ UploadIdle
    /\ PageIdle

\* Two workers serve the endpoints concurrently; the clients ask about a
\* record with text, a record without text and an unknown record
NextDb ==
    \/ \E p \in Workers : StartCall(p, EndpointCalls, {rA, rC, rX}, MaxRequests)
    \/ \E p \in Workers : ExplainGetRecord(p)
    \/ \E p \in Workers : ExplainGetExplanation(p)
    \/ \E p \in Workers : ExplainAnalysis(p)
    \/ \E p \in Workers : InsertLoad(p)
    \/ \E p \in Workers : SaveOpen(p)
    \/ \E p \in Workers : SaveDump(p)

SpecDb == InitDb /\ [][NextDb]_vars

\* One caller makes its calls one after the other
NextSeq ==
    \/ StartCall(1, FunctionCalls, RecordIds, MaxCalls)
    \/ ExplainGetRecord(1)
    \/ ExplainGetExplanation(1)
    \/ ExplainAnalysis(1)
    \/ InsertLoad(1)
    \/ SaveOpen(1)
    \/ SaveDump(1)

SpecSeq == InitDb /\ [][NextSeq]_vars

----------------------------------------------------------------------------
(* The clean-up and the parsing of one completion text *)

\* reports.py 178-186, symptom_checker.py 179-188 applied to the text
Normalize ==
    /\ tpc = "input"
    /\ text_once' = CleanMarkdown(Raw(text_in))
    /\ tpc' = "once"
    /\ UNCHANGED << text_in, text_twice, text_outcome >>
    /\ UNCHANGED notTextVars

\* The same applied to its own result
NormalizeAgain ==
    /\ tpc = "once"
    /\ text_twice' = CleanMarkdown(text_once)
    /\ tpc' = "twice"
    /\ UNCHANGED << text_in, text_once, text_outcome >>
    /\ UNCHANGED notTextVars

\* analyze_symptoms steps 5-7 on a body whose content (or, without choices,
\* whose text) is the text
Extract ==
    /\ tpc = "input"
    /\ \E kind \in {"ok", "no_choices"}, keyword, shown \in BOOLEAN :
        /\ (kind = "no_choices" /\ keyword) => shown
        /\ text_outcome' =
              ExtractAssessment(Body(1, [kind |-> kind, content |-> Raw(text_in)]),
                                keyword, shown)
    /\ tpc' = "extracted"
    /\ UNCHANGED << text_in, text_once, text_twice >>
    /\ UNCHANGED notTextVars

\* call_glm_for_analysis on the text as the content of its last model: the
\* parsed analysis, or the raise after the loop
AnalysisParse ==
    /\ tpc = "input"
    /\ text_outcome' =
          IF json_loads_ok(CleanMarkdown(Raw(text_in)))
          THEN Return(1, strip(CleanMarkdown(Raw(text_in))))
          ELSE Raise(500, "all_models_failed", [model |-> 1, kind |-> "invalid_json"])
    /\ tpc' = "parsed"
    /\ UNCHANGED << text_in, text_once, text_twice >>
    /\ UNCHANGED notTextVars

InitText ==
    /\ text_in \in TextParts
    /\ text_once = <<>>
    /\ text_twice = <<>>
    /\ text_outcome = NoResult
    /\ tpc = "input"
    /\ RequestIdle
    /\ StoreIdle
    /\ UploadIdle
    /\ PageIdle

NextText ==
    \/ Normalize
    \/ NormalizeAgain
    \/ Extract
    \/ AnalysisParse

SpecText == InitText /\ [][NextText]_vars

----------------------------------------------------------------------------
(* upload_medical_record, one request after the other *)

\* Record ids uuid4 generates for the uploads
UploadIds == { <<3, n>> : n \in 1..(MaxUploads + 1) }

\* What the library called by extract_text_from_file does with the file:
\* text found, no text found, an exception
ExtractionOutcomes == {"text", "blank", "raise"}

\* extract_text_from_file: the text of the document; an exception of the
\* library is caught and "" returned
extract_text_from_file(outcome) ==
    IF outcome = "text" THEN <<"x">> ELSE <<>>

\* Step 1: read the file, validate size, content type and report_date;
\* generate record_id
UploadValidate ==
    /\ upc \in {"idle", "done"}
    /\ uploads < MaxUploads
    /\ uploads' = uploads + 1
    /\ \E size \in FileSizes, type \in ContentTypes, d \in ReportDates :
        /\ upload' = [file_size_mb |-> size, content_type |-> type, report_date |-> d]
        /\ IF size > MAX_FILE_SIZE_MB \/ type \notin allowed_types \/ d # "iso"
           THEN /\ upload_response' = 400
                /\ upc' = "done"
                /\ new_record_id' = NoId
           ELSE /\ upload_response' = 0
                /\ upc' = "save"
                /\ new_record_id' = <<3, uploads + 1>>
    /\ extracted_text' = <<>>
    /\ upload_failure' = "none"
    /\ upload_start' = [records_dir |-> records_dir, db_file |-> db_file]
    /\ UNCHANGED << records_dir, db_file >>
    /\ UNCHANGED notUploadVars

\* Step 2: open(file_path, 'wb') and f.write(file_content); open may fail
\* (no file), write may fail (the file exists)
UploadSave ==
    /\ upc = "save"
    /\ \E outcome \in {"ok", "open_fails", "write_fails"} :
        /\ records_dir' = IF outcome = "open_fails" THEN records_dir
                          ELSE records_dir \cup {new_record_id}
        /\ upc' = IF outcome = "ok" THEN "extract" ELSE "except"
        /\ upload_failure' = IF outcome = "ok" THEN upload_failure ELSE "save"
    /\ UNCHANGED << upload, uploads, new_record_id, extracted_text, upload_start,
                    upload_response, db_file >>
    /\ UNCHANGED notUploadVars

\* Steps 3-5: extract_text_from_file, parse_medical_values,
\* determine_overall_status; none of them raises
UploadExtract ==
    /\ upc = "extract"
    /\ \E outcome \in ExtractionOutcomes :
        /\ extracted_text' = extract_text_from_file(outcome)
        /\ upload_failure' = IF outcome = "raise" THEN "extraction" ELSE upload_failure
    /\ upc' = "insert"
    /\ UNCHANGED << upload, uploads, new_record_id, records_dir, upload_start,
                    upload_response, db_file >>
    /\ UNCHANGED notUploadVars

\* The except branch that leaves the stored file where it is.
UploadExceptKeeping ==
    /\ upc = "except"
    /\ upload_response' = 500
    /\ upc' = "done"
    /\ UNCHANGED << upload, uploads, new_record_id, records_dir, extracted_text,
                    upload_failure, upload_start, db_file >>
    /\ UNCHANGED notUploadVars

\* Step 6: insert_record(record_data); save_database may fail at open (the
\* database file is as it was) or at json.dump (the file is truncated), and
\* re-raises. Then step 7, the 201 response
UploadInsert ==
    /\ upc = "insert"
    /\ \E outcome \in {"ok", "open_fails", "dump_fails"} :
        /\ db_file' = CASE outcome = "ok" ->
                             File(TRUE, insert_record(load_database(db_file),
                                         Record(new_record_id, extracted_text # <<>>)))
                        [] outcome = "open_fails" -> db_file
                        [] outcome = "dump_fails" -> File(FALSE, EmptyDb)
        /\ upc' = IF outcome = "ok" THEN "done" ELSE "except"
        /\ upload_response' = IF outcome = "ok" THEN 201 ELSE upload_response
        /\ upload_failure' = IF outcome = "ok" THEN upload_failure ELSE "insert"
    /\ UNCHANGED << upload, uploads, new_record_id, records_dir, extracted_text,
                    upload_start >>
    /\ UNCHANGED notUploadVars

\* except Exception: remove the file if it exists, raise 500
UploadExcept ==
    /\ upc = "except"
    /\ records_dir' = records_dir \ {new_record_id}
    /\ upload_response' = 500
    /\ upc' = "done"
    /\ UNCHANGED << upload, uploads, new_record_id, extracted_text, upload_failure,
                    upload_start, db_file >>
    /\ UNCHANGED notUploadVars

\* The database file as the module creates it when it is missing; no upload
\* has been made
InitUpload ==
    /\ UploadIdle
    /\ StoreIdle
    /\ RequestIdle
    /\ TextIdle
    /\ PageIdle

NextUpload ==
    \/ UploadValidate
    \/ UploadSave
    \/ UploadExtract
    \/ UploadInsert
    \/ UploadExcept

SpecUpload == InitUpload /\ [][NextUpload]_vars

----------------------------------------------------------------------------
(* get_records, read page by page *)

\* user_id, record_type and report_date of the records the database may hold
\* (report_date as the rank of the ISO date string in string order)
PageKinds ==
    { [user_id |-> "u1", record_type |-> "a", report_date |-> 1],
      [user_id |-> "u1", record_type |-> "a", report_date |-> 2],
      [user_id |-> "u1", record_type |-> "b", report_date |-> 2],
      [user_id |-> "u2", record_type |-> "a", report_date |-> 2] }

\* db["medical_records"]: up to MaxRecords records, in the order of their
\* insertion, each with its own id
Databases ==
    UNION { { [i \in 1..n |-> [id |-> i, user_id |-> f[i].user_id,
                               record_type |-> f[i].record_type,
                               report_date |-> f[i].report_date]] :
                f \in [1..n -> PageKinds] } : n \in 0..MaxRecords }

\* What the client asks for: a limit, and the filters ("" stands for None or
\* an empty string)
PageRequests ==
    [limit : 0..(MaxRecords + 1), record_type : {"", "a", "b"}, user_id : {"", "u1"}]

\* Pages a client asks for before it gives up
MaxPages == MaxRecords + 1

\* seq[a:b] of Python for 0 <= a, 0 <= b
Slice(seq, a, b) ==
    IF a >= Len(seq) \/ b <= a THEN <<>>
    ELSE SubSeq(seq, a + 1, IF b < Len(seq) THEN b ELSE Len(seq))

\* sorted(records, key=report_date, reverse=True): descending, and records
\* of equal report_date keep their order (the sort is stable)
RECURSIVE sorted_by_report_date(_)
sorted_by_report_date(records) ==
    IF records = <<>> THEN <<>>
    ELSE LET n == Len(records)
             x == records[n]
             before == sorted_by_report_date(SubSeq(records, 1, n - 1))
             k == Cardinality({ i \in 1..Len(before) :
                                  before[i].report_date >= x.report_date })
         IN  SubSeq(before, 1, k) \o << x >> \o SubSeq(before, k + 1, Len(before))

\* get_records whose slice takes the record at offset + limit too.
get_records_inclusive(records, limit, offset, record_type, user_id) ==
    LET by_user == IF user_id # ""
                   THEN SelectSeq(records, LAMBDA r : r.user_id = user_id)
                   ELSE records
        by_type == IF record_type # ""
                   THEN SelectSeq(by_user, LAMBDA r : r.record_type = record_type)
                   ELSE by_user
        ordered == sorted_by_report_date(by_type)
    IN  [offset |-> offset,
         page |-> Slice(ordered, offset, offset + limit + 1),
         total |-> Len(ordered)]

\* get_records: filter by user_id and record_type when given, sort, count,
\* slice
get_records(records, limit, offset, record_type, user_id) ==
    LET by_user == IF user_id # ""
                   THEN SelectSeq(records, LAMBDA r : r.user_id = user_id)
                   ELSE records
        by_type == IF record_type # ""
                   THEN SelectSeq(by_user, LAMBDA r : r.record_type = record_type)
                   ELSE by_user
        ordered == sorted_by_report_date(by_type)
    IN  [offset |-> offset,
         page |-> Slice(ordered, offset, offset + limit),
         total |-> Len(ordered)]

\* The client calls get_records with some offset
GetRecordsAt ==
    /\ ppc = "start"
    /\ \E offset \in 0..(MaxRecords + 1) :
        page_any' = get_records(page_db, page_req.limit, offset,
                                page_req.record_type, page_req.user_id)
    /\ ppc' = "paging"
    /\ UNCHANGED << page_db, page_req, pages >>
    /\ UNCHANGED notPageVars

\* The client asks for the next page: offsets 0, limit, 2*limit, ..., until
\* the offset passes the total or MaxPages pages were read
GetRecordsPage ==
    /\ ppc = "paging"
    /\ LET got == get_records(page_db, page_req.limit, Len(pages) * page_req.limit,
                              page_req.record_type, page_req.user_id)
       IN  /\ pages' = Append(pages, got)
           /\ ppc' = IF \/ got.offset + page_req.limit >= got.total
                        \/ Len(pages) + 1 = MaxPages
                     THEN "over" ELSE "paging"
    /\ UNCHANGED << page_db, page_req, page_any >>
    /\ UNCHANGED notPageVars

InitPage ==
    /\ page_db \in Databases
    /\ page_req \in PageRequests
    /\ pages = <<>>
    /\ page_any = NoPage
    /\ ppc = "start"
    /\ RequestIdle
    /\ StoreIdle
    /\ TextIdle
    /\ UploadIdle

NextPage ==
    \/ GetRecordsAt
    \/ GetRecordsPage

SpecPage == InitPage /\ [][NextPage]_vars

----------------------------------------------------------------------------
(* Vocabulary of the properties *)

\* RECORDS_DIR holds the file of the record id; the database holds a record
\* with the id
FileStored(id) == id \in records_dir
RecordStored(id) == get_record_by_id(load_database(db_file), id) # NoRecord

\* The record matches the filters of the paging request
Matches(r) ==
    /\ page_req.user_id # "" => r.user_id = page_req.user_id
    /\ page_req.record_type # "" => r.record_type = page_req.record_type

\* The ids of the matching records of the database
MatchingIds == { page_db[i].id : i \in { j \in 1..Len(page_db) : Matches(page_db[j]) } }

\* The pages read so far, one after the other
RECURSIVE Concat(_)
Concat(ps) == IF ps = <<>> THEN <<>> ELSE Concat(SubSeq(ps, 1, Len(ps) - 1)) \o ps[Len(ps)].page

\* The sequence is in descending order of report_date
Descending(seq) ==
    \A i, j \in 1..Len(seq) : i < j => seq[i].report_date >= seq[j].report_date

\* The sequence holds each matching record of the database exactly once and
\* nothing else
EachMatchingOnce(seq) ==
    /\ \A i \in 1..Len(seq) : seq[i] \in { page_db[j] : j \in 1..Len(page_db) }
    /\ { seq[i].id : i \in 1..Len(seq) } = MatchingIds
    /\ Len(seq) = Cardinality(MatchingIds)

\* What get_records returned has the right total and at most limit records,
\* and is the part [offset, offset + limit) of the listing
SliceOf(got, listing) ==
    /\ got.total = Cardinality(MatchingIds)
    /\ Len(got.page) <= page_req.limit
    /\ Len(got.page) = IF got.offset >= Len(listing) THEN 0
                       ELSE IF got.offset + page_req.limit <= Len(listing)
                            THEN page_req.limit
                            ELSE Len(listing) - got.offset
    /\ \A i \in 1..Len(got.page) : got.page[i] = listing[got.offset + i]

\* The matching records sorted by report_date descending
Listing == sorted_by_report_date(SelectSeq(page_db, Matches))

\* Length of the model list of a chain
N(ch) == Len(models_to_try(ch))

\* A provider failure of the error taxonomy: bad status, timeout, malformed body
ProviderFailed(o) == o.kind \in FailureKinds

\* The attempt yields no completion its function can use: a provider failure,
\* or, where the function itself parses the completion (report analysis),
\* content that is not JSON after the fences are stripped.
AttemptFailed(ch, o) ==
    \/ ProviderFailed(o)
    \/ ch = "analysis" /\ o.kind = "ok" /\ ~json_loads_ok(CleanMarkdown(o.content))

\* The attempt yields a completion its function can use.
AttemptSucceeded(ch, o) ==
    /\ o.kind = "ok"
    /\ ch = "analysis" => json_loads_ok(CleanMarkdown(o.content))

\* What the function hands on of the content of outcome o: the text, or for
\* report analysis the JSON value parsed from it
Delivered(ch, o) ==
    IF ch = "analysis" THEN strip(CleanMarkdown(o.content)) ELSE o.content

\* The fallback loop is over: the function returned or raised, or (symptom
\* triage) left the loop with the body
LoopOver == cpc \in {"returned", "post"}

\* The call of worker p went through insert_record or insert_explanation and
\* save_database returned without raising
WriteReturned(p) == wpc[p] = "done" /\ wdb[p] # EmptyDb

\* The database holds the record or the explanation worker p inserted
HoldsUpdate(db, p) ==
    IF wreq[p].kind = "insert_record"
    THEN \E i \in 1..Len(db.medical_records) : db.medical_records[i] = wrecord[p]
    ELSE \E i \in 1..Len(db.report_explanations) :
             db.report_explanations[i] = wexplanation[p]

\* The updates of p and q are not two explanations of one record (of which
\* insert_explanation keeps one in any order)
Independent(p, q) ==
    \/ wreq[p].kind = "insert_record"
    \/ wreq[q].kind = "insert_record"
    \/ wreq[p].record_id # wreq[q].record_id

\* The text is a JSON value between an opening and a closing fence, with any
\* tag and any white space
SinglyFencedJson(t) ==
    /\ t.open = Fence /\ t.close = Fence
    /\ Len(t.payload) = 1 /\ t.payload[1] \in JsonValues

\* The text is a payload between an opening fence line (the fence, a tag or
\* none, the end of the line) and a closing fence
Wrapped(t) == t.open = Fence /\ t.sep = <<"ws">> /\ t.close = Fence

\* The request of a caller that requires structured output is over and went
\* through its fallback loop
StructuredRequestDone ==
    /\ endpoint \in {"explain", "symptoms"}
    /\ epc = "done"
    /\ chain \in {"analysis", "symptom"}

\* The outcome of the last provider call of the loop
LastOutcome == attempts[Len(attempts)].outcome

\* The JSON value in the text of the last provider call, after the clean-up
LastParsed == strip(CleanMarkdown(LastOutcome.content))

----------------------------------------------------------------------------
(* Properties *)

\* C1: when the attempts on models 1..N-1 of a chain fail and the attempt on
\* model N succeeds, the loop ends there, with exactly N provider calls, and
\* hands on the content produced by model N.
C1_LastModelWins ==
    ( /\ chain \in Chains
      /\ Len(attempts) >= N(chain)
      /\ \A k \in 1..(N(chain) - 1) : AttemptFailed(chain, attempts[k].outcome)
      /\ AttemptSucceeded(chain, attempts[N(chain)].outcome) )
    => /\ Len(attempts) = N(chain)
       /\ cpc \notin {"loop", "wait"}
       /\ LoopOver => /\ result.kind \in {"return", "body"}
                      /\ result.model = N(chain)
                      /\ result.content = Delivered(chain, attempts[N(chain)].outcome)

\* C1 witness: a loop that ended on the success of its last model after the
\* failure of all the others.
C1_Witness ==
    /\ chain \in Chains
    /\ LoopOver
    /\ Len(attempts) = N(chain)
    /\ \A k \in 1..(N(chain) - 1) : AttemptFailed(chain, attempts[k].outcome)
    /\ AttemptSucceeded(chain, attempts[N(chain)].outcome)
    /\ result.model = N(chain)

\* C2: when the attempts on all N models of a chain fail, exactly N provider
\* calls are made, no content is ever returned, the loop never goes back to
\* an earlier model and the function (and the request of the endpoint that
\* depends on it) ends in an error.
C2_AllModelsFail ==
    ( /\ chain \in Chains
      /\ Len(attempts) >= N(chain)
      /\ \A k \in 1..N(chain) : AttemptFailed(chain, attempts[k].outcome) )
    => /\ Len(attempts) = N(chain)
       /\ cpc # "wait"
       /\ cpc = "loop" => idx = N(chain) + 1
       /\ result.kind # "return"
       /\ cpc = "post" => result.detail = "no_choices"
       /\ cpc \in {"returned", "idle"} => result.kind = "raise"
       /\ (epc = "done" /\ chain # "ocr") => response.status \notin {0, 200}

\* C2 witness: a function that raised after N failed attempts.
C2_Witness ==
    /\ chain \in Chains
    /\ cpc = "returned"
    /\ Len(attempts) = N(chain)
    /\ \A k \in 1..N(chain) : AttemptFailed(chain, attempts[k].outcome)
    /\ result.kind = "raise"

\* C3: in every chain, when every attempt failed, the error the function
\* raises carries the error of the last attempted model.
C3_LastErrorSurfaced ==
    ( /\ chain \in Chains
      /\ cpc \in {"returned", "idle"}
      /\ Len(attempts) = N(chain)
      /\ \A k \in 1..N(chain) : AttemptFailed(chain, attempts[k].outcome)
      /\ result.kind = "raise" )
    => /\ result.error.model = N(chain)
       /\ result.error.kind \in {attempts[N(chain)].outcome.kind, "invalid_json"}

\* C4: the k-th provider call of a chain goes to the k-th model of the
\* configured list and is issued only after the attempts on models 1..k-1
\* failed; the first attempt that succeeds determines the result.
C4_StrictOrder ==
    chain \in Chains =>
      \A k \in 1..Len(attempts) :
        /\ attempts[k].position = k
        /\ attempts[k].payload.model = models_to_try(chain)[k]
        /\ \A j \in 1..(k - 1) : AttemptFailed(chain, attempts[j].outcome)
        /\ AttemptSucceeded(chain, attempts[k].outcome) =>
             /\ Len(attempts) = k
             /\ LoopOver => /\ result.kind \in {"return", "body"}
                            /\ result.model = k
                            /\ result.content = Delivered(chain, attempts[k].outcome)

\* C4 witness: a loop that ended on the success of a model after the first.
C4_Witness ==
    /\ chain \in Chains
    /\ LoopOver
    /\ Len(attempts) >= 3
    /\ AttemptSucceeded(chain, attempts[Len(attempts)].outcome)
    /\ result.model = Len(attempts)

\* C5: within one invocation no model is attempted twice, and the attempt that
\* follows a failed one is the attempt on the next model of the list.
C5_OneAttemptPerModel ==
    /\ \A i, j \in 1..Len(attempts) :
         i < j => /\ attempts[i].payload.model # attempts[j].payload.model
                  /\ attempts[j].position = attempts[i].position + (j - i)
    /\ chain \in Chains => Len(attempts) <= N(chain)

\* C5 witness: an attempt on the next model follows a failed attempt.
C5_Witness ==
    /\ chain \in Chains
    /\ Len(attempts) >= 2
    /\ AttemptFailed(chain, attempts[Len(attempts) - 1].outcome)
    /\ attempts[Len(attempts)].position = attempts[Len(attempts) - 1].position + 1

\* C6: in every chain, once an attempt returned a transport-success response
\* with a first completion, no later model is attempted, whatever the content.
C6_TransportSuccessStops ==
    chain \in Chains =>
      \A k \in 1..Len(attempts) :
        attempts[k].outcome.kind = "ok" =>
          /\ Len(attempts) = k
          /\ cpc \notin {"loop", "wait"}

\* C7: in every chain, a bad status, a timeout or a malformed body of a model
\* that is not the last one is recorded as last_error and the loop goes on
\* with the next model.
C7_FailureContinues ==
    chain \in Chains =>
      \A k \in 1..Len(attempts) :
        ( /\ k < N(chain)
          /\ Len(attempts) = k
          /\ ProviderFailed(attempts[k].outcome) )
        => /\ cpc = "loop"
           /\ idx = k + 1
           /\ last_error = [model |-> k, kind |-> attempts[k].outcome.kind]

\* C8: without the API key no provider call is issued, every fallback
\* function raises the configuration error, and every endpoint that entered
\* one answers with that configuration error.
C8_NoKeyFailsFast ==
    ~OPENROUTER_API_KEY =>
      /\ sent = 0
      /\ cpc = "returned" => (result.kind = "raise" /\ result.detail = "not_configured")
      /\ (epc = "done" /\ chain \in Chains) => response.detail = "not_configured"

\* C9: no request carries response_format unless the identifier of its model
\* contains "gpt" or "deepseek" (case-insensitively); no zhipuai/glm model
\* ever gets it.
C9_DirectiveOnlyIfSupported ==
    \A k \in 1..Len(attempts) :
      attempts[k].payload.response_format =>
        /\ \/ Contains(<<"g","p","t">>, lower(attempts[k].payload.model))
           \/ Contains(<<"d","e","e","p","s","e","e","k">>, lower(attempts[k].payload.model))
        /\ ~startswith(attempts[k].payload.model, <<"z","h","i","p","u","a","i","/","g","l","m">>)

\* C9 witness: a triage request went to the zhipuai/glm models without the
\* directive and then to openai/gpt-3.5-turbo with it.
C9_Witness ==
    /\ chain = "symptom"
    /\ Len(attempts) = 4
    /\ ~attempts[1].payload.response_format
    /\ attempts[4].payload.model = gpt_35_turbo
    /\ attempts[4].payload.response_format

\* C10: every request of report analysis and of symptom triage to a model
\* whose identifier marks structured-output support carries response_format.
C10_DirectiveWheneverSupported ==
    chain \in {"analysis", "symptom"} =>
      \A k \in 1..Len(attempts) :
        SupportsJsonObject(attempts[k].payload.model) =>
          attempts[k].payload.response_format

\* C11: within one request at most one provider call is outstanding at any
\* moment, it is the call issued last, and a call is issued only when the
\* outcome of every earlier call is known.
C11_Sequential ==
    /\ Cardinality({k \in 1..Len(attempts) : attempts[k].outcome.kind = "pending"}) <= 1
    /\ \A k \in 1..Len(attempts) :
         attempts[k].outcome.kind = "pending" => (k = Len(attempts) /\ cpc = "wait")
    /\ cpc = "wait" => /\ attempts # <<>>
                       /\ attempts[Len(attempts)].outcome.kind = "pending"

\* C11 witness: the call to a later model is outstanding and the outcome of
\* the call before it is known.
C11_Witness ==
    /\ cpc = "wait"
    /\ Len(attempts) >= 2
    /\ attempts[Len(attempts)].outcome.kind = "pending"
    /\ attempts[Len(attempts) - 1].outcome.kind \in FailureKinds \cup {"ok"}

\* C12: when the load..save of two writers overlapped (each loaded before the
\* other saved) and both returned without error, the file holds the update of
\* the writer that saved last and has lost the update of the other one.
C12_LostUpdate ==
    \A p, q \in Workers :
      ( /\ p # q
        /\ WriteReturned(p) /\ WriteReturned(q)
        /\ q \in wover[p]
        /\ Independent(p, q) )
      => /\ db_file.readable
         /\ HoldsUpdate(db_file.data, p)
         /\ ~HoldsUpdate(db_file.data, q)

\* C12 witness: two uploads both answered 201 and the file holds the record
\* of one of them only.
C12_Witness ==
    \E p, q \in Workers :
      /\ p # q
      /\ wreq[p].kind = "insert_record" /\ wreq[q].kind = "insert_record"
      /\ wpc[p] = "done" /\ wpc[q] = "done"
      /\ wresp[p].status = 201 /\ wresp[q].status = 201
      /\ q \in wover[p]
      /\ db_file.readable
      /\ HoldsUpdate(db_file.data, p)
      /\ ~HoldsUpdate(db_file.data, q)

\* C13: the clean-up returns a text without leading fence (white space
\* aside) as it is, and cleaning the result of cleaning a singly fenced JSON
\* payload changes nothing.
C13_CleanTextUnchanged ==
    /\ tpc \in {"once", "twice"} =>
         (~startswith(strip(Raw(text_in)), Fence) => text_once = Raw(text_in))
    /\ ( /\ tpc = "twice"
         /\ \/ ~startswith(strip(Raw(text_in)), Fence)
            \/ SinglyFencedJson(text_in) )
       => text_twice = text_once

\* C13 witness: a JSON object between a json fence and a closing fence was
\* cleaned to the object, and cleaning the object again gave the object.
C13_Witness ==
    /\ tpc = "twice"
    /\ SinglyFencedJson(text_in)
    /\ text_in.tag = TagJson
    /\ text_once = <<"{ok}">>
    /\ text_twice = <<"{ok}">>

\* C14: the clean-up of a payload between an opening fence, with any tag or
\* none, and a closing fence is exactly the payload.
C14_FenceAndTagRemoved ==
    (tpc \in {"once", "twice"} /\ Wrapped(text_in)) => text_once = text_in.payload

\* C15: an error that quotes provider output quotes at most SnippetLimit
\* characters of it.
C15_EchoBounded ==
    (tpc \in {"extracted", "parsed"} /\ text_outcome.kind = "raise")
    => Len(text_outcome.content) <= SnippetLimit

\* C16: a report-explanation or triage request whose models all failed, or
\* whose model text is not valid structured output (it does not parse as
\* JSON, or the JSON object has not the fields of the schema), ends in an
\* error response, never in a success response.
C16_FailureSurfaced ==
    ( /\ StructuredRequestDone
      /\ \/ \A k \in 1..Len(attempts) : AttemptFailed(chain, attempts[k].outcome)
         \/ /\ attempts # <<>>
            /\ LastOutcome.kind = "ok"
            /\ LastParsed # <<"{ok}">> )
    => response.status \notin {0, 200}

\* C17: a triage request whose model text parses as a JSON object lacking a
\* field of the assessment ends in an error response that carries no
\* assessment.
C17_MissingFieldFails ==
    ( /\ StructuredRequestDone
      /\ endpoint = "symptoms"
      /\ attempts # <<>>
      /\ LastOutcome.kind = "ok"
      /\ LastParsed = <<"{part}">> )
    => /\ response.status \in {500, 502}
       /\ response.content = <<>>
       /\ result.kind = "raise"

\* C17 witness: a triage request answered 500 to a JSON object lacking fields.
C17_Witness ==
    /\ StructuredRequestDone
    /\ endpoint = "symptoms"
    /\ attempts # <<>>
    /\ LastOutcome.kind = "ok"
    /\ LastParsed = <<"{part}">>
    /\ response.status = 500


\* C18: after any sequence of insert_explanation calls on a database that
\* began with at most one explanation per record, report_explanations holds
\* at most one explanation per record_id, and the one held for a record is
\* the one inserted last for it.
C18_OnePerRecord ==
    db_file.readable =>
      LET held == db_file.data.report_explanations
      IN  /\ \A i, j \in 1..Len(held) :
                held[i].record_id = held[j].record_id => i = j
          /\ \A i \in 1..Len(held) : held[i] = latest[held[i].record_id]
          /\ \A r \in RecordIds :
                latest[r] # NoExplanation =>
                  \E i \in 1..Len(held) : held[i] = latest[r]

\* insert_explanation has returned for a record that had an explanation when
\* the call began: the file holds the new one in its place
C18_Witness ==
    /\ wpc[1] = "done"
    /\ wreq[1].kind = "insert_explanation"
    /\ wstart[1].explanation # NoExplanation
    /\ db_file.readable
    /\ get_explanation_by_record_id(db_file.data, wreq[1].record_id) = wexplanation[1]
    /\ wexplanation[1] # wstart[1].explanation
    /\ Len(db_file.data.report_explanations) = 2


\* C19: an explain_medical_report request that starts when an explanation of
\* its record is stored returns that explanation, calls no provider and
\* writes nothing to the database.
C19_StoredReturned ==
    ( /\ wpc[1] = "done"
      /\ wreq[1].kind = "explain"
      /\ wstart[1].record # NoRecord
      /\ wstart[1].explanation # NoExplanation )
    => /\ wresp[1] = WResp(200, wstart[1].explanation)
       /\ ~wcalled[1]
       /\ wdb[1] = EmptyDb


\* C20: once explain_medical_report has returned an explanation of a record,
\* every explain request for that record that returns afterwards returns
\* the same explanation, also when the requests overlap: no two different
\* explanations of one record are ever returned.
C20_SameExplanation ==
    \A r \in RecordIds : Cardinality(served[r]) <= 1


\* C21: every explanation that explain_medical_report stores in the database
\* validates as a ReportExplanation, so that a stored explanation can always
\* be returned by a later explain request.
C21_StoredValidates ==
    db_file.readable =>
      \A i \in 1..Len(db_file.data.report_explanations) :
        ReportExplanationValid(db_file.data.report_explanations[i].content)


\* C22: an explain_medical_report request that ends in an error has written
\* nothing to the database; with 404 (no record) or 400 (no extracted text)
\* it has called no provider.
C22_ErrorLeavesDatabase ==
    ( /\ wpc[1] = "done"
      /\ wreq[1].kind = "explain"
      /\ wresp[1].status \notin {0, 200} )
    => /\ wdb[1] = EmptyDb
       /\ db_file.readable
       /\ get_explanation_by_record_id(db_file.data, wreq[1].record_id)
            = wstart[1].explanation
       /\ wresp[1].status \in {400, 404} => ~wcalled[1]


\* C23: insert_record and insert_explanation never remove a stored medical
\* record: the database a call has saved when it returns holds every medical
\* record the file held when the call began, also when load_database failed
\* to read the file during the call.
C23_RecordsKept ==
    \A p \in Workers :
      WriteReturned(p) =>
        \A i \in 1..Len(wstart[p].medical_records) :
          \E j \in 1..Len(wdb[p].medical_records) :
            wdb[p].medical_records[j] = wstart[p].medical_records[i]


C25_Pages ==
    /\ EachMatchingOnce(Listing) /\ Descending(Listing)
    /\ ppc # "start" => SliceOf(page_any, Listing)
    /\ \A k \in 1..Len(pages) : SliceOf(pages[k], Listing)
    /\ ppc = "over" => EachMatchingOnce(Concat(pages))

\* C25 amended: as C25, where the pages of the offsets 0, limit, 2*limit,
\* ... hold every matching record exactly once for every limit >= 1 (with
\* limit 0 every page is empty).
C25_PagesAmended ==
    /\ EachMatchingOnce(Listing) /\ Descending(Listing)
    /\ ppc # "start" => SliceOf(page_any, Listing)
    /\ \A k \in 1..Len(pages) : SliceOf(pages[k], Listing)
    /\ (ppc = "over" /\ page_req.limit >= 1) =>
         /\ EachMatchingOnce(Concat(pages))
         /\ Concat(pages) = Listing
    /\ page_req.limit = 0 => \A k \in 1..Len(pages) : pages[k].page = <<>>

\* A client filtering by record type has read the two matching records of a
\* database of three in two pages of limit 1
C25_Witness ==
    /\ ppc = "over"
    /\ page_req.limit = 1
    /\ page_req.record_type = "a"
    /\ Len(pages) = 2
    /\ Len(Concat(pages)) = 2
    /\ Len(page_db) = 3
    /\ pages[1].page # <<>> /\ pages[2].page # <<>>


\* C26: analyze_symptoms generates one assessment identifier per request,
\* names that identifier in the prompt of every model attempt of the
\* request, and every assessment it returns has it as its assessment_id.
C26_PinnedIdentifier ==
    (endpoint = "symptoms" /\ assessment_id # NoAssessmentId) =>
      /\ Len(prompts) = Len(attempts)
      /\ \A k \in 1..Len(prompts) : prompts[k] = assessment_id
      /\ (epc = "done" /\ response.status = 200) => returned_id = assessment_id

============================================================================
